---- MODULE Spec2Model ----
(***************************************************************************)
(* Model of the object-storage gateway: node discovery over the container  *)
(* inventory, consistent-hash routing (github.com/buraksezer/consistent as *)
(* configured by registerStorageNodes), lazy provisioning of the selected  *)
(* node's bucket and delegation of Put/Get, plus the bulk Setup.           *)
(* Source: src/internal/storage/storage.go, src/internal/gateway/router.go *)
(***************************************************************************)
EXTENDS Integers, Sequences, FiniteSets, TLC

(***************************************************************************)
(* Bounds of the model.                                                    *)
(***************************************************************************)
\* number of worker containers that can exist
MaxWorkers == 3
\* number of distinct object identifiers
MaxKeys == 2
\* number of ring builds remembered for one (directory, key) in RingSpec
MaxBuilds == 2
\* number of requests (Put, Get or Setup) in one run
MaxReq == 2
\* number of changes of the inventory (a worker starts or stops) in one run
MaxDirChanges == 1
\* largest number of one-byte characters, and of two-byte characters, in the
\* object identifier of an HTTP request in HttpSpec
MaxIdAscii == 34
MaxIdWide == 1
\* requests in flight at the gateway, and seconds followed after a
\* termination signal, in ShutdownSpec
MaxInflight == 2
MaxClock == 4
\* number of containers in one listing of the inventory in DiscoverySpec
MaxListing == 2

(***************************************************************************)
(* Program constants.                                                      *)
(***************************************************************************)
workerContainerNamePattern == "amazin-object-storage-node-"
dockerNetwork == "homework-object-storage_amazin-object-storage"
accessKeyEnv == "MINIO_ACCESS_KEY"
secretKeyEnv == "MINIO_SECRET_KEY"
minioWorkerPort == 9000
\* consistent.Config as written by registerStorageNodes
CfgReplicationFactor == 0
\* Load: 1.25, kept as the fraction LoadNum / LoadDen
LoadNum == 5
LoadDen == 4
\* defaults consistent.New substitutes for zero-valued Config fields
DefaultPartitionCount == 271
DefaultReplicationFactor == 20

\* the nil Member returned by GetPartitionOwner for an unowned partition
NilMember == "<nil>"
NoError == <<>>

(***************************************************************************)
(* Object identifiers.                                                     *)
(***************************************************************************)
ObjectID(i) == "obj" \o ToString(i)
ObjectIDs == {ObjectID(i) : i \in 1..MaxKeys}
KeyCode(id) == CHOOSE i \in 1..MaxKeys : ObjectID(i) = id

(***************************************************************************)
(* Text.  A container name and an environment entry are sequences of       *)
(* tokens (a token stands for a run of characters without "="); Join is    *)
(* the string they spell.                                                  *)
(***************************************************************************)
RECURSIVE Join(_)
Join(toks) == IF toks = <<>> THEN "" ELSE Head(toks) \o Join(Tail(toks))

\* a variant that finds every pattern in every name
ContainsAnything(toks, pattern) == TRUE

\* strings.Contains(name, pattern), on tokens
Contains(toks, pattern) == \E j \in 1..Len(toks) : toks[j] = pattern

\* strings.Split(env, "="): the segments between the "=" tokens
RECURSIVE Split(_)
Split(toks) ==
    IF \A j \in 1..Len(toks) : toks[j] # "="
    THEN <<toks>>
    ELSE LET k == CHOOSE j \in 1..Len(toks) :
                     toks[j] = "=" /\ \A l \in 1..(j - 1) : toks[l] # "="
         IN  <<SubSeq(toks, 1, k - 1)>> \o Split(SubSeq(toks, k + 1, Len(toks)))

(***************************************************************************)
(* The container inventory.  Workers 1..MaxWorkers are storage nodes; the  *)
(* last one is attached to the network without an address.  Two more       *)
(* containers are always running: the gateway itself (not a worker) and a  *)
(* worker-named container without network settings.                        *)
(***************************************************************************)
Workers == 1..MaxWorkers
WorkerID(i) == "c" \o ToString(i)
WorkerName(i) == <<"/", workerContainerNamePattern, ToString(i)>>
WorkerIP(i) == IF i = MaxWorkers THEN "" ELSE "10.0.0." \o ToString(i)
AccessOf(i) == "access" \o ToString(i)
SecretOf(i) == "secret" \o ToString(i)
WorkerContainer(i) ==
    [ID    |-> WorkerID(i),
     Names |-> <<WorkerName(i)>>,
     NetworkSettings |-> [nil |-> FALSE, attached |-> TRUE, IPAddress |-> WorkerIP(i)],
     Env   |-> << <<"PATH", "=", "/usr/bin">>,
                  <<accessKeyEnv, "=", AccessOf(i)>>,
                  <<secretKeyEnv, "=", SecretOf(i)>> >>]
GatewayContainer ==
    [ID    |-> "g0",
     Names |-> << <<"/", "gateway">> >>,
     NetworkSettings |-> [nil |-> FALSE, attached |-> TRUE, IPAddress |-> "10.0.0.100"],
     Env   |-> << <<"BUCKET_NAME", "=", "default">> >>]
DetachedContainer ==
    [ID    |-> "d0",
     Names |-> << <<"/", workerContainerNamePattern, "x">> >>,
     NetworkSettings |-> [nil |-> TRUE, attached |-> FALSE, IPAddress |-> ""],
     Env   |-> <<>>]

\* ContainerList(status=running), in the order the inventory reports
RECURSIVE WorkerListing(_, _)
WorkerListing(run, i) ==
    IF i > MaxWorkers THEN <<>>
    ELSE (IF i \in run THEN <<WorkerContainer(i)>> ELSE <<>>) \o WorkerListing(run, i + 1)
Listing(run) == <<GatewayContainer, DetachedContainer>> \o WorkerListing(run, 1)

(***************************************************************************)
(* storageNode and its String(): "<ID>.<Name>".                            *)
(***************************************************************************)
ZeroNode == [ID |-> "", Name |-> <<>>, Endpoint |-> "", AccessKey |-> "", SecretKey |-> ""]
String(n) == n.ID \o "." \o Join(n.Name)
WorkerKey(i) == WorkerID(i) \o "." \o Join(WorkerName(i))
WorkerKeys == {WorkerKey(i) : i \in Workers}
MemberCode(m) == CHOOSE i \in Workers : WorkerKey(i) = m

(***************************************************************************)
(* Errors.  An error is the chain of its layers, outermost first; a layer  *)
(* is the format's text and the value interpolated into it.                *)
(***************************************************************************)
Errorf(msg, arg, cause) == <<[msg |-> msg, arg |-> arg]>> \o cause
Mentions(err, v) == \E j \in 1..Len(err) : err[j].arg = v
Wraps(err, cause) ==
    Len(err) > Len(cause) /\ SubSeq(err, Len(err) - Len(cause) + 1, Len(err)) = cause

(***************************************************************************)
(* hasher.Sum64.  xxhash is kept abstract: one fixed function per run,     *)
(* applied uniformly to member labels, partition ids and object keys.      *)
(* It is drawn from a family of permutations of 0..HashSpace-1, x |->      *)
(* (a*x + b)^3 mod HashSpace (HashSpace prime with 3 coprime to            *)
(* HashSpace-1), so distinct inputs get distinct, scattered positions, as  *)
(* they do under a 64-bit hash for the handful of inputs of one request.   *)
(* Inputs are the byte strings the code hashes:                            *)
(*   [kind |-> "member", s, i]  fmt.Sprintf("%s%d", member.String(), i)    *)
(*   [kind |-> "part", p]       LittleEndian.PutUint64(bs, partID)         *)
(*   [kind |-> "key", s]        []byte(id)                                 *)
(***************************************************************************)
HashSpace == 131
Seeds == {<<1, 0>>, <<5, 3>>, <<11, 40>>, <<29, 77>>}
\* the hash function the request model runs under
MainSeeds == {<<29, 77>>}
InputCode(x) ==
    CASE x.kind = "member" -> (MemberCode(x.s) - 1) * DefaultReplicationFactor + x.i
      [] x.kind = "part"   -> (MaxWorkers + 1) * DefaultReplicationFactor + x.p
      [] x.kind = "key"    -> (MaxWorkers + 1) * DefaultReplicationFactor
                                + MaxWorkers + 1 + KeyCode(x.s)
Cube(y) == (((y * y) % HashSpace) * y) % HashSpace
Sum64(sd, x) == Cube((sd[1] * InputCode(x) + sd[2]) % HashSpace)

(***************************************************************************)
(* github.com/buraksezer/consistent, as used by registerStorageNodes.      *)
(* A ring value c is a record:                                             *)
(*   partitionCount, replicationFactor : the effective Config              *)
(*   members    : set of member.String()                                   *)
(*   ring       : hash -> member (last writer wins)                        *)
(*   sortedSet  : the hashes, ascending (duplicates kept)                  *)
(*   partitions : partID -> member                                         *)
(*   panic      : "" or the message of the panic raised while building     *)
(***************************************************************************)
consistentNew(cfg) ==
    [partitionCount    |-> IF cfg.PartitionCount = 0
                           THEN DefaultPartitionCount ELSE cfg.PartitionCount,
     replicationFactor |-> IF cfg.ReplicationFactor = 0
                           THEN DefaultReplicationFactor ELSE cfg.ReplicationFactor,
     members    |-> {},
     ring       |-> <<>>,
     sortedSet  |-> <<>>,
     partitions |-> <<>>,
     panic      |-> ""]

\* sort.Slice(c.sortedSet, <) after appending h
InsertSorted(s, h) ==
    LET k == Cardinality({j \in 1..Len(s) : s[j] < h})
    IN  SubSeq(s, 1, k) \o <<h>> \o SubSeq(s, k + 1, Len(s))

RECURSIVE addReplicas(_, _, _, _)
addReplicas(sd, c, member, i) ==
    IF i >= c.replicationFactor THEN c
    ELSE LET h == Sum64(sd, [kind |-> "member", s |-> member, i |-> i])
             ring2 == [x \in DOMAIN c.ring \cup {h} |->
                          IF x = h THEN member ELSE c.ring[x]]
         IN  addReplicas(sd, [c EXCEPT !.ring = ring2,
                                       !.sortedSet = InsertSorted(c.sortedSet, h)],
                         member, i + 1)

add(sd, c, member) ==
    LET c2 == addReplicas(sd, c, member, 0)
    IN  [c2 EXCEPT !.members = c.members \cup {member}]

\* math.Ceil(float64(partitionCount / len(members)) * Load)
averageLoad(c) ==
    IF c.members = {} THEN 0
    ELSE LET q == c.partitionCount \div Cardinality(c.members)
         IN  (LoadNum * q + LoadDen - 1) \div LoadDen

Load(loads, m) == IF m \in DOMAIN loads THEN loads[m] ELSE 0

\* the probing loop; idx is 0-based as in the code
RECURSIVE distributeWithLoad(_, _, _, _, _)
distributeWithLoad(c, idx, count, loads, avgLoad) ==
    IF count + 1 >= Len(c.sortedSet)
    THEN [ok |-> FALSE, member |-> NilMember]
    ELSE LET member == c.ring[c.sortedSet[idx + 1]]
         IN  IF Load(loads, member) + 1 <= avgLoad
             THEN [ok |-> TRUE, member |-> member]
             ELSE distributeWithLoad(c, IF idx + 1 >= Len(c.sortedSet) THEN 0 ELSE idx + 1,
                                     count + 1, loads, avgLoad)

\* sort.Search(len(sortedSet), sortedSet[i] >= key), wrapped to 0
searchIdx(c, key) ==
    LET idx == Cardinality({j \in 1..Len(c.sortedSet) : c.sortedSet[j] < key})
    IN  IF idx >= Len(c.sortedSet) THEN 0 ELSE idx

RECURSIVE distributeLoop(_, _, _, _, _)
distributeLoop(sd, c, partID, partitions, loads) ==
    IF partID >= c.partitionCount
    THEN [c EXCEPT !.partitions = partitions]
    ELSE LET key == Sum64(sd, [kind |-> "part", p |-> partID])
             r   == distributeWithLoad(c, searchIdx(c, key), 0, loads, averageLoad(c))
         IN  IF ~r.ok
             THEN [c EXCEPT !.panic = "not enough room to distribute partitions"]
             ELSE distributeLoop(sd, c, partID + 1,
                      [p \in DOMAIN partitions \cup {partID} |->
                          IF p = partID THEN r.member ELSE partitions[p]],
                      [m \in DOMAIN loads \cup {r.member} |->
                          IF m = r.member THEN Load(loads, m) + 1 ELSE loads[m]])

distributePartitions(sd, c) == distributeLoop(sd, c, 0, <<>>, <<>>)

\* a variant of Consistent.Add that distributes the partitions only when the
\* first member joins
consistentAddNoRedistribute(sd, c, member) ==
    IF c.panic # "" THEN c
    ELSE IF member \in c.members THEN c
    ELSE IF c.members = {} THEN distributePartitions(sd, add(sd, c, member))
    ELSE add(sd, c, member)

\* Consistent.Add
consistentAdd(sd, c, member) ==
    IF c.panic # "" THEN c
    ELSE IF member \in c.members THEN c
    ELSE distributePartitions(sd, add(sd, c, member))

\* a variant of FindPartitionID that is off by one in the modulus
FindPartitionIDOffByOne(sd, c, id) ==
    Sum64(sd, [kind |-> "key", s |-> id]) % (c.partitionCount + 1)

FindPartitionID(sd, c, id) ==
    Sum64(sd, [kind |-> "key", s |-> id]) % c.partitionCount

GetPartitionOwner(c, partID) ==
    IF partID \in DOMAIN c.partitions THEN c.partitions[partID] ELSE NilMember

LocateKey(sd, c, id) == GetPartitionOwner(c, FindPartitionID(sd, c, id))

(***************************************************************************)
(* balancedStorage.registerStorageNodes.  storageNodes is the directory    *)
(* (key -> storageNode); order is the sequence of keys in which the Go     *)
(* runtime happens to iterate the map.                                     *)
(***************************************************************************)
RECURSIVE addAll(_, _, _, _)
addAll(sd, c, storageNodes, order) ==
    IF order = <<>> THEN c
    ELSE addAll(sd, consistentAdd(sd, c, String(storageNodes[Head(order)])),
                storageNodes, Tail(order))

registerStorageNodes(sd, storageNodes, order) ==
    addAll(sd,
           consistentNew([PartitionCount    |-> Cardinality(DOMAIN storageNodes),
                          ReplicationFactor |-> CfgReplicationFactor]),
           storageNodes, order)

\* every order in which a map with these keys can be iterated
Orders(keys) ==
    {o \in [1..Cardinality(keys) -> keys] :
        \A i, j \in 1..Cardinality(keys) : i # j => o[i] # o[j]}

(***************************************************************************)
(* balancedStorage.getStorageNodes.  listErr: ContainerList fails;         *)
(* inspectFail: the IDs for which ContainerInspect fails.  The result is   *)
(* [panic, err, nodes].                                                     *)
(***************************************************************************)
ErrDockerList == <<[msg |-> "docker: error during connect", arg |-> ""]>>
ErrDockerInspect(id) == <<[msg |-> "docker: no such container", arg |-> id]>>

RECURSIVE parseEnv(_, _)
parseEnv(envs, containerEnv) ==
    IF envs = <<>> THEN containerEnv
    ELSE LET splitted == Split(Head(envs))
         IN  IF Len(splitted) > 1
             THEN parseEnv(Tail(envs),
                      [k \in DOMAIN containerEnv \cup {Join(splitted[1])} |->
                          IF k = Join(splitted[1]) THEN Join(splitted[2])
                          ELSE containerEnv[k]])
             ELSE parseEnv(Tail(envs), containerEnv)

EnvLookup(containerEnv, k) == IF k \in DOMAIN containerEnv THEN containerEnv[k] ELSE ""

RECURSIVE containerLoop(_, _, _)
containerLoop(containers, inspectFail, storageNodes) ==
    IF containers = <<>>
    THEN [panic |-> "", err |-> NoError, nodes |-> storageNodes]
    ELSE LET container == Head(containers)
         IN  IF container.NetworkSettings.nil
             THEN containerLoop(Tail(containers), inspectFail, storageNodes)
             ELSE IF ~container.NetworkSettings.attached
             THEN [panic |-> "nil pointer dereference", err |-> NoError, nodes |-> storageNodes]
             ELSE IF container.ID \in inspectFail
             THEN [panic |-> "",
                   err   |-> Errorf("cannot inspect container %s: %w", container.ID,
                                    ErrDockerInspect(container.ID)),
                   nodes |-> storageNodes]
             ELSE LET containerEnv == parseEnv(container.Env, <<>>)
                      node == [ID        |-> container.ID,
                               Name      |-> IF Len(container.Names) > 0
                                             THEN container.Names[1] ELSE <<>>,
                               Endpoint  |-> container.NetworkSettings.IPAddress
                                               \o ":" \o ToString(minioWorkerPort),
                               AccessKey |-> EnvLookup(containerEnv, accessKeyEnv),
                               SecretKey |-> EnvLookup(containerEnv, secretKeyEnv)]
                  IN  IF Contains(node.Name, workerContainerNamePattern)
                      THEN containerLoop(Tail(containers), inspectFail,
                               [k \in DOMAIN storageNodes \cup {String(node)} |->
                                   IF k = String(node) THEN node ELSE storageNodes[k]])
                      ELSE containerLoop(Tail(containers), inspectFail, storageNodes)

getStorageNodes(containers, listErr, inspectFail) ==
    IF listErr
    THEN [panic |-> "", err |-> Errorf("cannot list containers, err: %w", "", ErrDockerList),
          nodes |-> <<>>]
    ELSE containerLoop(containers, inspectFail, <<>>)

(***************************************************************************)
(* newMinioStorage: minio.NewWithOptions rejects an endpoint without a     *)
(* host; nothing is sent to the network.                                   *)
(***************************************************************************)
ValidEndpoint(e) == e # "" /\ e # ":" \o ToString(minioWorkerPort)
ErrInvalidEndpoint(e) ==
    <<[msg |-> "Endpoint does not follow ip address or domain name standards", arg |-> e]>>
NoClient == [Endpoint |-> "", AccessKey |-> "", SecretKey |-> "", BucketName |-> ""]

newMinioStorage(cfg) ==
    IF ~ValidEndpoint(cfg.Endpoint)
    THEN [err |-> Errorf("cannot create storage instance, err: %w", "",
                         ErrInvalidEndpoint(cfg.Endpoint)),
          s   |-> NoClient]
    ELSE [err |-> NoError, s |-> cfg]

bucketName == "default"
minioConfig(node) ==
    [Endpoint |-> node.Endpoint, AccessKey |-> node.AccessKey,
     SecretKey |-> node.SecretKey, BucketName |-> bucketName]

(***************************************************************************)
(* getStorageWorker, lines 207-218: ring build, locate, directory lookup   *)
(* and client construction.  [panic, storageID, err, s].                   *)
(***************************************************************************)
getStorageWorkerSelect(sd, storageNodes, order, id) ==
    LET consistent == registerStorageNodes(sd, storageNodes, order)
    IN  IF consistent.panic # ""
        THEN [panic |-> consistent.panic, storageID |-> "", err |-> NoError, s |-> NoClient]
        ELSE LET member == LocateKey(sd, consistent, id)
             IN  IF member = NilMember
                 THEN [panic |-> "nil pointer dereference", storageID |-> "",
                       err |-> NoError, s |-> NoClient]
                 ELSE LET node == IF member \in DOMAIN storageNodes
                                  THEN storageNodes[member] ELSE ZeroNode
                          made == newMinioStorage(minioConfig(node))
                      IN  [panic |-> "", storageID |-> member,
                           err |-> made.err, s |-> made.s]

(***************************************************************************)
(* State.                                                                  *)
(***************************************************************************)
VARIABLES
    seed,        \* the hash function of this run (hasher.Sum64)
    running,     \* workers whose container is running (the inventory)
    dirChanges,  \* how often the inventory has changed
    bucket,      \* worker -> whether the bucket exists on its backend
    objects,     \* worker -> object id -> stored object
    req,         \* request slot -> the state of its Put/Get/Setup call
    stable,      \* object id -> what the last successful Put to it carried,
                 \* while the inventory has not changed since (history)
    rbefore,     \* RingSpec: the routing outcomes before a node was removed
    disc,        \* DiscoverySpec: one discovery, its inputs and its result
    http,        \* HttpSpec: one request to the HTTP adapter
    srv,         \* ShutdownSpec: the gateway process, from serving to its exit
    rdir, rkey, located  \* RingSpec: workers of a directory, a key, and
                         \* iteration order -> outcome of the selection

vars == <<seed, running, dirChanges, bucket, objects, req, stable, rdir, rkey, located,
         rbefore, disc, http, srv>>
mainVars == <<seed, running, dirChanges, bucket, objects, req, stable>>
ringVars == <<rdir, rkey, located, rbefore>>
discVars == <<disc>>
httpVars == <<http, srv>>

\* the values of disc and http while no discovery or HTTP request is followed
NoDiscovery == [pc |-> "none"]
\* the value of rbefore while no node was removed from the directory
NoRemoval == [removed |-> "", dir |-> {}, located |-> <<>>]
NoRequest == [pc |-> "none"]
\* the value of srv while the gateway process is not followed
NoServer == [pc |-> "none"]

Slots == 1..MaxReq
\* what a Put carries: <<content type, body>>
Payloads == {<<"", "b1">>, <<"text/plain", "b2">>}
NoObject == [present |-> FALSE, ct |-> "", body |-> ""]
Object(ct, body) == [present |-> TRUE, ct |-> ct, body |-> body]

(***************************************************************************)
(* A request: its arguments (op, id, contentType, body), where it stands   *)
(* (pc), the locals of the code (storageNodes, storageID, the client s,    *)
(* the nodes the bulk Setup has not visited), what it returned (err,       *)
(* rbody, rct) or that it panicked, and its history: whether the directory *)
(* was resolved, the calls sent to nodes with what the client returned,    *)
(* whether a call failed for a reason outside the program (fault), for a   *)
(* Get the stable object at its start (expect) and end (want), and how     *)
(* many calls it had sent when its context was cancelled (cancelAt, -1     *)
(* while the context is live).                                             *)
(***************************************************************************)
IdleReq ==
    [op |-> "none", id |-> "", contentType |-> "", body |-> "", pc |-> "idle",
     storageNodes |-> <<>>, storageID |-> "", s |-> NoClient, remaining |-> {},
     err |-> NoError, panic |-> "", rbody |-> "", rct |-> "",
     resolved |-> FALSE, calls |-> <<>>, fault |-> FALSE,
     expect |-> NoObject, want |-> NoObject,
     cancelAt |-> -1]

Finished(q) == q.pc \in {"done", "failed", "panicked"}

Call(node, name, err, body, ct) ==
    [node |-> node, call |-> name, ok |-> (err = NoError), err |-> err,
     body |-> body, ct |-> ct]

\* a Get that ends notes the stable object of its key, if it is still the
\* one the Get started with
Seal(q) ==
    IF q.op = "Get" /\ Finished(q)
    THEN [q EXCEPT !.want = IF q.expect.present /\ stable[q.id] = q.expect
                            THEN q.expect ELSE NoObject]
    ELSE q

(***************************************************************************)
(* The storage backend of a node, as the minio client sees it.             *)
(***************************************************************************)
EndpointOf(i) == WorkerIP(i) \o ":" \o ToString(minioWorkerPort)
\* the worker serving an endpoint, 0 when there is none
BackendOf(e) ==
    IF \E i \in Workers : WorkerIP(i) # "" /\ EndpointOf(i) = e
    THEN CHOOSE i \in Workers : WorkerIP(i) # "" /\ EndpointOf(i) = e
    ELSE 0
ErrDial(e) == <<[msg |-> "dial tcp: connection refused", arg |-> e]>>
ErrAccessDenied == <<[msg |-> "Access Denied.", arg |-> ""]>>
ErrBucketAlreadyOwnedByYou ==
    <<[msg |-> "Your previous request to create the named bucket succeeded and you already own it.",
       arg |-> ""]>>
ErrNoSuchKey(id) == <<[msg |-> "The specified key does not exist.", arg |-> id]>>
\* NoError when the backend answers the client s, the transport error otherwise;
\* netFail: the network or the backend process fails this call
CallError(s, run, netFail) ==
    LET i == BackendOf(s.Endpoint)
    IN  IF i = 0 \/ i \notin run \/ netFail THEN ErrDial(s.Endpoint)
        ELSE IF s.AccessKey # AccessOf(i) \/ s.SecretKey # SecretOf(i) THEN ErrAccessDenied
        ELSE NoError
\* the same for a call that is given the context of the request
ErrContextCanceled == <<[msg |-> "context canceled", arg |-> ""]>>
CtxCallError(q, run, netFail) ==
    IF q.cancelAt >= 0 THEN ErrContextCanceled ELSE CallError(q.s, run, netFail)
\* PutObjectOptions{ContentType}: an empty content type is stored as octet-stream
StoredContentType(ct) == IF ct = "" THEN "application/octet-stream" ELSE ct

(***************************************************************************)
(* The errors the code builds.                                             *)
(***************************************************************************)
\* minioStorage.Setup, lines 68-70 and 77
minioSetupExistsErr(bucketExistsErr) ==
    Errorf("cannot get bucket info, err: %w", "", bucketExistsErr)
minioSetupMakeErr(bucket_, makeErr) ==
    Errorf("cannot create bucket %s, err: %w", bucket_, makeErr)
\* getStorageWorker, lines 216-225: both returns precede the annotation
getStorageWorkerErr(storageID, err) == err
\* minioStorage.Put, lines 85-88, and balancedStorage.Put, lines 261-263
minioPutErr(id, err) ==
    IF err # NoError
    THEN Errorf("cannot put object '%s' into storage instance, err: %w", id, err)
    ELSE NoError
balancedPutErr(storageID, err) ==
    IF err # NoError
    THEN Errorf("cannot put using worker '%s', err: %w", storageID, err)
    ELSE NoError
\* minioStorage.Get, lines 98-102, and balancedStorage.Get, lines 273-275
minioGetErr(err) ==
    IF err # NoError THEN Errorf("cannot get object stats, err: %w", "", err) ELSE NoError
\* a variant of balancedStorage.Get that returns the node's error as it is
balancedGetErrBare(storageID, err) == err
balancedGetErr(storageID, err) ==
    IF err # NoError
    THEN Errorf("cannot get using worker '%s', err: %w", storageID, err)
    ELSE NoError
\* balancedStorage.Setup, lines 242-245 and 247-250
balancedSetupCreateErr(node, createStorageErr) ==
    Errorf("cannot create minio storage %s, err: %w", String(node), createStorageErr)
balancedSetupErr(node, err) ==
    Errorf("cannot setup storage %s, err: %w", String(node), err)

(***************************************************************************)
(* Initial state: nothing provisioned, nothing stored, no request; either  *)
(* no worker is running yet or all of them are.                            *)
(***************************************************************************)
Init ==
    /\ seed \in MainSeeds
    /\ running \in {{}, Workers}
    /\ dirChanges = 0
    /\ bucket = [i \in Workers |-> FALSE]
    /\ objects = [i \in Workers |-> [k \in ObjectIDs |-> NoObject]]
    /\ req = [r \in Slots |-> IdleReq]
    /\ stable = [k \in ObjectIDs |-> NoObject]
    /\ rdir = {} /\ rkey = "" /\ located = <<>> /\ rbefore = NoRemoval
    /\ disc = NoDiscovery /\ http = NoRequest /\ srv = NoServer

(***************************************************************************)
(* Start of a request: discovery, then for Put/Get the routing of          *)
(* getStorageWorker up to the constructed client (lines 203-218).  Slots   *)
(* are taken in order.  The inventory may fail the listing, or the         *)
(* inspection of the first or of the last container listed.                *)
(***************************************************************************)
CanStart(r) == req[r].pc = "idle" /\ \A p \in 1..(r - 1) : req[p].pc # "idle"
InspectFailChoices ==
    {{}, {GatewayContainer.ID}}
        \cup {{WorkerID(i)} : i \in {j \in running : \A l \in running : l <= j}}
Discoveries ==
    {getStorageNodes(Listing(running), listErr, inspectFail) :
        listErr \in BOOLEAN, inspectFail \in InspectFailChoices}

\* a variant that goes on with the nodes found before the discovery failed
UndiscoveredPartial(q, d) ==
    IF d.panic # ""
    THEN [q EXCEPT !.pc = "panicked", !.panic = d.panic]
    ELSE [q EXCEPT !.pc = "done", !.resolved = TRUE, !.storageNodes = d.nodes]

\* the request q after a discovery that did not return a directory
Undiscovered(q, d) ==
    IF d.panic # ""
    THEN [q EXCEPT !.pc = "panicked", !.panic = d.panic]
    ELSE [q EXCEPT !.pc = "failed", !.err = d.err, !.fault = TRUE]

\* the request q after getStorageWorker's discovery d and selection w
Selected(q, d, w) ==
    LET q2 == [q EXCEPT !.resolved = TRUE, !.storageNodes = d.nodes]
    IN  IF w.panic # ""
        THEN [q2 EXCEPT !.pc = "panicked", !.panic = w.panic]
        ELSE IF w.err # NoError
        THEN [q2 EXCEPT !.pc = "failed", !.storageID = w.storageID,
                        !.err = getStorageWorkerErr(w.storageID, w.err)]
        ELSE [q2 EXCEPT !.pc = "exists", !.storageID = w.storageID, !.s = w.s]

getStorageWorker(r, id, bases) ==
    \E d \in Discoveries :
        IF d.panic # "" \/ d.err # NoError
        THEN \E base \in bases : req' = [req EXCEPT ![r] = Seal(Undiscovered(base, d))]
        ELSE \E order \in Orders(DOMAIN d.nodes) :
                LET w == getStorageWorkerSelect(seed, d.nodes, order, id)
                IN  \E base \in bases :
                        req' = [req EXCEPT ![r] = Seal(Selected(base, d, w))]

\* balancedStorage.Put, up to the first call to the node
balancedPut(r) ==
    /\ CanStart(r)
    /\ \E id \in ObjectIDs :
          getStorageWorker(r, id,
              {[IdleReq EXCEPT !.op = "Put", !.id = id,
                               !.contentType = pl[1], !.body = pl[2]] : pl \in Payloads})
    /\ UNCHANGED <<seed, running, dirChanges, bucket, objects, stable, ringVars, discVars, httpVars>>

\* balancedStorage.Get, up to the first call to the node
balancedGet(r) ==
    /\ CanStart(r)
    /\ \E id \in ObjectIDs :
          getStorageWorker(r, id,
              {[IdleReq EXCEPT !.op = "Get", !.id = id, !.expect = stable[id]]})
    /\ UNCHANGED <<seed, running, dirChanges, bucket, objects, stable, ringVars, discVars, httpVars>>

\* balancedStorage.Setup, lines 231-234: the discovery
balancedSetup(r) ==
    /\ CanStart(r)
    /\ \E d \in Discoveries :
        LET base == [IdleReq EXCEPT !.op = "Setup"]
        IN  req' = [req EXCEPT ![r] =
                IF d.panic # "" \/ d.err # NoError THEN Undiscovered(base, d)
                ELSE [base EXCEPT !.pc = IF DOMAIN d.nodes = {} THEN "done" ELSE "loop",
                                  !.resolved = TRUE,
                                  !.storageNodes = d.nodes,
                                  !.remaining = DOMAIN d.nodes]]
    /\ UNCHANGED <<seed, running, dirChanges, bucket, objects, stable, ringVars, discVars, httpVars>>

\* a variant of the loop body that skips a node whose client cannot be built
SetupVisitSkip(q, k) ==
    LET node == q.storageNodes[k]
        made == newMinioStorage(minioConfig(node))
        q2   == [q EXCEPT !.storageID = k, !.remaining = @ \ {k}]
    IN  IF made.err # NoError
        THEN [q2 EXCEPT !.pc = IF q2.remaining = {} THEN "done" ELSE "loop"]
        ELSE [q2 EXCEPT !.pc = "exists", !.s = made.s]

\* the request q of a bulk Setup whose loop takes node k next, lines 235-245
SetupVisit(q, k) ==
    LET node == q.storageNodes[k]
        made == newMinioStorage(minioConfig(node))
        q2   == [q EXCEPT !.storageID = k, !.remaining = @ \ {k}]
    IN  IF made.err # NoError
        THEN [q2 EXCEPT !.pc = "failed", !.err = balancedSetupCreateErr(node, made.err)]
        ELSE [q2 EXCEPT !.pc = "exists", !.s = made.s]

\* balancedStorage.Setup: the range loop takes any node not yet visited
SetupNext(r) ==
    /\ req[r].pc = "loop"
    /\ \E k \in req[r].remaining : req' = [req EXCEPT ![r] = SetupVisit(req[r], k)]
    /\ UNCHANGED <<seed, running, dirChanges, bucket, objects, stable, ringVars, discVars, httpVars>>

(***************************************************************************)
(* minioStorage.Setup on the client of the request: the existence check    *)
(* and the conditional create are two calls to the node.  Its error goes   *)
(* back through getStorageWorker (lines 219-221) and Put/Get (lines        *)
(* 257-259, 269-271), and through the bulk Setup wrapped with the node     *)
(* (lines 247-250).                                                        *)
(***************************************************************************)
\* a variant that tries the failed provisioning of the node once more
SetupFailedRetry(q, e, isFault) ==
    IF Len(q.calls) < 2 THEN [q EXCEPT !.pc = "exists", !.fault = isFault]
    ELSE [q EXCEPT !.pc = "failed", !.fault = isFault,
                   !.err = IF q.op = "Setup"
                           THEN balancedSetupErr(q.storageNodes[q.storageID], e)
                           ELSE getStorageWorkerErr(q.storageID, e)]

SetupFailed(q, e, isFault) ==
    [q EXCEPT !.pc = "failed", !.fault = isFault,
              !.err = IF q.op = "Setup"
                      THEN balancedSetupErr(q.storageNodes[q.storageID], e)
                      ELSE getStorageWorkerErr(q.storageID, e)]

\* a variant of the bulk Setup that returns after the first node it ensured
EnsuredFirstOnly(q) ==
    IF q.op = "Setup" THEN [q EXCEPT !.pc = "done"] ELSE [q EXCEPT !.pc = "delegate"]

\* minioStorage.Setup returned nil: the bulk Setup goes on with its loop
\* (line 251), Put/Get go on to the delegated call (lines 226-227)
Ensured(q) ==
    IF q.op = "Setup"
    THEN [q EXCEPT !.pc = IF q.remaining = {} THEN "done" ELSE "loop"]
    ELSE [q EXCEPT !.pc = "delegate"]

\* a variant of lines 63-71 that creates the bucket whatever the check says
BucketExistsThenMake(r) ==
    /\ req[r].pc = "exists"
    /\ \E netFail \in BOOLEAN :
       LET q == req[r]
           e == CallError(q.s, running, netFail)
           exists == e = NoError /\ bucket[BackendOf(q.s.Endpoint)]
           q2 == [q EXCEPT !.calls = Append(@, Call(q.s.Endpoint, "BucketExists", e,
                                                    ToString(exists), ""))]
       IN  req' = [req EXCEPT ![r] = Seal(
               IF e # NoError
               THEN SetupFailed(q2, minioSetupExistsErr(e), TRUE)
               ELSE [q2 EXCEPT !.pc = "make"])]
    /\ UNCHANGED <<seed, running, dirChanges, bucket, objects, stable, ringVars, discVars, httpVars>>

\* lines 63-71: BucketExists
BucketExists(r) ==
    /\ req[r].pc = "exists"
    /\ \E netFail \in BOOLEAN :
       LET q == req[r]
           e == CallError(q.s, running, netFail)
           exists == e = NoError /\ bucket[BackendOf(q.s.Endpoint)]
           q2 == [q EXCEPT !.calls = Append(@, Call(q.s.Endpoint, "BucketExists", e,
                                                    ToString(exists), ""))]
       IN  req' = [req EXCEPT ![r] = Seal(
               IF e # NoError
               THEN SetupFailed(q2, minioSetupExistsErr(e), TRUE)
               ELSE IF exists
               THEN Ensured(q2)
               ELSE [q2 EXCEPT !.pc = "make"])]
    /\ UNCHANGED <<seed, running, dirChanges, bucket, objects, stable, ringVars, discVars, httpVars>>

\* lines 72-78: MakeBucket
MakeBucket(r) ==
    /\ req[r].pc = "make"
    /\ \E netFail \in BOOLEAN :
       LET q == req[r]
           i == BackendOf(q.s.Endpoint)
           e == CallError(q.s, running, netFail)
           makeErr == IF e # NoError THEN e
                      ELSE IF bucket[i] THEN ErrBucketAlreadyOwnedByYou ELSE NoError
           q2 == [q EXCEPT !.calls = Append(@, Call(q.s.Endpoint, "MakeBucket", makeErr, "", ""))]
       IN  /\ req' = [req EXCEPT ![r] = Seal(
                 IF makeErr = NoError THEN Ensured(q2)
                 ELSE SetupFailed(q2, minioSetupMakeErr(q.s.BucketName, makeErr),
                                  e # NoError))]
           /\ bucket' = IF makeErr = NoError THEN [bucket EXCEPT ![i] = TRUE] ELSE bucket
    /\ UNCHANGED <<seed, running, dirChanges, objects, stable, ringVars, discVars, httpVars>>

(***************************************************************************)
(* The delegated call: minioStorage.Put (lines 81-90) under                *)
(* balancedStorage.Put (lines 260-264).                                    *)
(***************************************************************************)
\* a variant of the delegated Put that writes the object to every running node
minioPutEverywhere(r) ==
    /\ req[r].pc = "delegate" /\ req[r].op = "Put"
    /\ \E netFail \in BOOLEAN :
       LET q == req[r]
           i == BackendOf(q.s.Endpoint)
           e == CtxCallError(q, running, netFail)
           err == minioPutErr(q.id, e)
           q2 == [q EXCEPT !.calls = Append(@, Call(q.s.Endpoint, "PutObject", err, "", "")),
                           !.err = balancedPutErr(q.storageID, err)]
       IN  IF e # NoError
           THEN /\ req' = [req EXCEPT ![r] = [q2 EXCEPT !.pc = "failed", !.fault = TRUE]]
                /\ UNCHANGED <<objects, stable>>
           ELSE /\ req' = [req EXCEPT ![r] = [q2 EXCEPT !.pc = "done"]]
                /\ objects' = [j \in Workers |->
                                  IF j \in running
                                  THEN [objects[j] EXCEPT ![q.id] =
                                          Object(StoredContentType(q.contentType), q.body)]
                                  ELSE objects[j]]
                /\ stable' = [stable EXCEPT ![q.id] =
                                  IF q.storageNodes =
                                       getStorageNodes(Listing(running), FALSE, {}).nodes
                                  THEN Object(q.contentType, q.body) ELSE NoObject]
    /\ UNCHANGED <<seed, running, dirChanges, bucket, ringVars, discVars, httpVars>>

minioPut(r) ==
    /\ req[r].pc = "delegate" /\ req[r].op = "Put"
    /\ \E netFail \in BOOLEAN :
       LET q == req[r]
           i == BackendOf(q.s.Endpoint)
           e == CtxCallError(q, running, netFail)
           err == minioPutErr(q.id, e)
           q2 == [q EXCEPT !.calls = Append(@, Call(q.s.Endpoint, "PutObject", err, "", "")),
                           !.err = balancedPutErr(q.storageID, err)]
       IN  IF e # NoError
           THEN /\ req' = [req EXCEPT ![r] = [q2 EXCEPT !.pc = "failed", !.fault = TRUE]]
                /\ UNCHANGED <<objects, stable>>
           ELSE /\ req' = [req EXCEPT ![r] = [q2 EXCEPT !.pc = "done"]]
                /\ objects' = [objects EXCEPT ![i][q.id] =
                                  Object(StoredContentType(q.contentType), q.body)]
                /\ stable' = [stable EXCEPT ![q.id] =
                                  IF q.storageNodes =
                                       getStorageNodes(Listing(running), FALSE, {}).nodes
                                  THEN Object(q.contentType, q.body) ELSE NoObject]
    /\ UNCHANGED <<seed, running, dirChanges, bucket, ringVars, discVars, httpVars>>

(***************************************************************************)
(* The delegated call: minioStorage.Get (lines 92-110) under               *)
(* balancedStorage.Get (lines 272-276).  GetObject is lazy; Stat is the    *)
(* first request sent, ReadAll reads the whole body.                       *)
(***************************************************************************)
minioGet(r) ==
    /\ req[r].pc = "delegate" /\ req[r].op = "Get"
    /\ \E netFail \in BOOLEAN :
       LET q == req[r]
           i == BackendOf(q.s.Endpoint)
           e == CtxCallError(q, running, netFail)
           statErr == IF e # NoError THEN e
                      ELSE IF ~objects[i][q.id].present THEN ErrNoSuchKey(q.id) ELSE NoError
           err  == minioGetErr(statErr)
           body == IF statErr = NoError THEN objects[i][q.id].body ELSE ""
           ct   == IF statErr = NoError THEN objects[i][q.id].ct ELSE ""
           q2 == [q EXCEPT !.calls = Append(@, Call(q.s.Endpoint, "GetObject", err, body, ct)),
                           !.err = balancedGetErr(q.storageID, err),
                           !.rbody = body, !.rct = ct,
                           !.fault = (e # NoError)]
       IN  req' = [req EXCEPT ![r] =
                     Seal([q2 EXCEPT !.pc = IF statErr # NoError THEN "failed" ELSE "done"])]
    /\ UNCHANGED <<seed, running, dirChanges, bucket, objects, stable, ringVars, discVars, httpVars>>

(***************************************************************************)
(* The environment: worker containers start and stop.                      *)
(***************************************************************************)
WorkerStart(i) ==
    /\ i \notin running /\ dirChanges < MaxDirChanges
    /\ running' = running \cup {i}
    /\ dirChanges' = dirChanges + 1
    /\ stable' = [k \in ObjectIDs |-> NoObject]
    /\ UNCHANGED <<seed, bucket, objects, req, ringVars, discVars, httpVars>>

WorkerStop(i) ==
    /\ i \in running /\ dirChanges < MaxDirChanges
    /\ running' = running \ {i}
    /\ dirChanges' = dirChanges + 1
    /\ stable' = [k \in ObjectIDs |-> NoObject]
    /\ UNCHANGED <<seed, bucket, objects, req, ringVars, discVars, httpVars>>

Next ==
    \/ \E r \in Slots : balancedPut(r)
    \/ \E r \in Slots : balancedGet(r)
    \/ \E r \in Slots : balancedSetup(r)
    \/ \E r \in Slots : SetupNext(r)
    \/ \E r \in Slots : BucketExists(r)
    \/ \E r \in Slots : MakeBucket(r)
    \/ \E r \in Slots : minioPut(r)
    \/ \E r \in Slots : minioGet(r)
    \/ \E i \in Workers : WorkerStart(i)
    \/ \E i \in Workers : WorkerStop(i)

Spec == Init /\ [][Next]_vars

(***************************************************************************)
(* CancelSpec: Puts and Gets whose context may be cancelled while they     *)
(* run.  PutObjectWithContext and GetObjectWithContext are given the       *)
(* context; BucketExists and MakeBucket (lines 63, 72) are not.            *)
(***************************************************************************)
Cancel(r) ==
    /\ req[r].pc \in {"exists", "make", "delegate"}
    /\ req[r].cancelAt < 0
    /\ req' = [req EXCEPT ![r].cancelAt = Len(req[r].calls)]
    /\ UNCHANGED <<seed, running, dirChanges, bucket, objects, stable, ringVars, discVars, httpVars>>

CancelNext ==
    \/ \E r \in Slots : balancedPut(r)
    \/ \E r \in Slots : balancedGet(r)
    \/ \E r \in Slots : BucketExists(r)
    \/ \E r \in Slots : MakeBucket(r)
    \/ \E r \in Slots : minioPut(r)
    \/ \E r \in Slots : minioGet(r)
    \/ \E r \in Slots : Cancel(r)

CancelSpec == Init /\ [][CancelNext]_vars

(***************************************************************************)
(* RingSpec: routing as a function of (directory, key).  A directory and a *)
(* key are fixed at the start; each step routes the key once more, with    *)
(* the directory iterated in an order not used before.                     *)
(***************************************************************************)
\* a variant that keeps returning the directory of all workers
DirectoryStale(ws) == getStorageNodes(Listing(Workers), FALSE, {}).nodes

Directory(ws) == getStorageNodes(Listing(ws), FALSE, {}).nodes

RingInit ==
    /\ seed \in Seeds
    /\ rdir \in SUBSET Workers
    /\ rkey \in ObjectIDs
    /\ located = <<>> /\ rbefore = NoRemoval
    /\ disc = NoDiscovery /\ http = NoRequest /\ srv = NoServer
    /\ running = {} /\ dirChanges = 0
    /\ bucket = [i \in Workers |-> FALSE]
    /\ objects = [i \in Workers |-> [k \in ObjectIDs |-> NoObject]]
    /\ req = [r \in Slots |-> IdleReq]
    /\ stable = [k \in ObjectIDs |-> NoObject]

Route(order) ==
    /\ order \notin DOMAIN located
    /\ Cardinality(DOMAIN located) < MaxBuilds
    /\ located' = [o \in DOMAIN located \cup {order} |->
                      IF o = order
                      THEN getStorageWorkerSelect(seed, Directory(rdir), order, rkey)
                      ELSE located[o]]
    /\ UNCHANGED <<mainVars, rdir, rkey, rbefore, discVars, httpVars>>

\* the worker w stops: the next discovery returns the directory without it
Remove(w) ==
    /\ w \in rdir /\ rbefore = NoRemoval /\ located # <<>>
    /\ rbefore' = [removed |-> WorkerKey(w), dir |-> rdir, located |-> located]
    /\ rdir' = rdir \ {w}
    /\ located' = <<>>
    /\ UNCHANGED <<mainVars, rkey, discVars, httpVars>>

RingNext ==
    \/ \E order \in Orders(DOMAIN Directory(rdir)) : Route(order)
    \/ \E w \in Workers : Remove(w)

RingSpec == RingInit /\ [][RingNext]_vars

(***************************************************************************)
(* DiscoverySpec: one discovery over a listing the inventory may report,   *)
(* followed by what the calling Put, Get or Setup does with its result.    *)
(* Besides the workers, the inventory may report: a worker whose secret    *)
(* contains "=", the gateway, a container without network settings, one    *)
(* attached to another network only, one without names, and one whose      *)
(* second name only carries the worker pattern.                            *)
(***************************************************************************)
EqualsSecretContainer ==
    [WorkerContainer(1) EXCEPT
        !.Env = << <<accessKeyEnv, "=", AccessOf(1)>>,
                   <<secretKeyEnv, "=", "c2Vj", "=", "=">> >>]
OtherNetworkContainer ==
    [ID    |-> "o0",
     Names |-> << <<"/", "database">> >>,
     NetworkSettings |-> [nil |-> FALSE, attached |-> FALSE, IPAddress |-> ""],
     Env   |-> <<>>]
NoNamesContainer ==
    [ID    |-> "n0",
     Names |-> <<>>,
     NetworkSettings |-> [nil |-> FALSE, attached |-> TRUE, IPAddress |-> "10.0.0.101"],
     Env   |-> <<>>]
SecondNameContainer ==
    [ID    |-> "s0",
     Names |-> << <<"/", "proxy">>, <<"/", workerContainerNamePattern, "s">> >>,
     NetworkSettings |-> [nil |-> FALSE, attached |-> TRUE, IPAddress |-> "10.0.0.102"],
     Env   |-> <<>>]

Candidates ==
    {WorkerContainer(i) : i \in Workers}
        \cup {EqualsSecretContainer, GatewayContainer, DetachedContainer,
              OtherNetworkContainer, NoNamesContainer, SecondNameContainer}

\* the listings of at most MaxListing containers, each container once
Listings ==
    UNION {{l \in [1..n -> Candidates] :
               \A i, j \in 1..n : i # j => l[i].ID # l[j].ID} : n \in 0..MaxListing}

\* what may go wrong: the listing, or the inspection of one listed container
Faults(l) ==
    {[listErr |-> TRUE, inspectFail |-> {}], [listErr |-> FALSE, inspectFail |-> {}]}
        \cup {[listErr |-> FALSE, inspectFail |-> {l[j].ID}] : j \in 1..Len(l)}

DiscoveryInit ==
    /\ seed \in MainSeeds
    /\ \E l \in Listings : \E f \in Faults(l) :
          disc = [pc |-> "listed", containers |-> l, fault |-> f]
    /\ http = NoRequest /\ srv = NoServer
    /\ rdir = {} /\ rkey = "" /\ located = <<>> /\ rbefore = NoRemoval
    /\ running = {} /\ dirChanges = 0
    /\ bucket = [i \in Workers |-> FALSE]
    /\ objects = [i \in Workers |-> [k \in ObjectIDs |-> NoObject]]
    /\ req = [r \in Slots |-> IdleReq]
    /\ stable = [k \in ObjectIDs |-> NoObject]

\* getStorageNodes on the listing
Discover ==
    /\ disc.pc = "listed"
    /\ disc' = [pc |-> "discovered", containers |-> disc.containers, fault |-> disc.fault,
                res |-> getStorageNodes(disc.containers, disc.fault.listErr,
                                        disc.fault.inspectFail)]
    /\ UNCHANGED <<mainVars, ringVars, httpVars>>

\* the request of the caller once getStorageNodes is back: getStorageWorker,
\* lines 203-218, for Put and Get, balancedStorage.Setup, lines 231-234
AfterDiscovery(op, d, order) ==
    LET base == [IdleReq EXCEPT !.op = op, !.id = IF op = "Setup" THEN "" ELSE ObjectID(1)]
    IN  IF d.panic # "" \/ d.err # NoError THEN Undiscovered(base, d)
        ELSE IF op = "Setup"
        THEN [base EXCEPT !.pc = IF DOMAIN d.nodes = {} THEN "done" ELSE "loop",
                          !.resolved = TRUE, !.storageNodes = d.nodes,
                          !.remaining = DOMAIN d.nodes]
        ELSE Selected(base, d, getStorageWorkerSelect(seed, d.nodes, order, ObjectID(1)))

Resolve(op) ==
    /\ disc.pc = "discovered"
    /\ \E order \in Orders(DOMAIN disc.res.nodes) :
          disc' = [pc |-> "resolved", containers |-> disc.containers, fault |-> disc.fault,
                   res |-> disc.res, rq |-> AfterDiscovery(op, disc.res, order)]
    /\ UNCHANGED <<mainVars, ringVars, httpVars>>

DiscoveryNext ==
    \/ Discover
    \/ \E op \in {"Put", "Get", "Setup"} : Resolve(op)

DiscoverySpec == DiscoveryInit /\ [][DiscoveryNext]_vars

(***************************************************************************)
(* HttpSpec: one request to the HTTP adapter (gateway/router.go).  The     *)
(* identifier is the path parameter "id": a string of one-byte characters  *)
(* and of two-byte characters (UTF-8 beyond ASCII), kept as their numbers. *)
(* The storage behind the adapter answers with or without an error.        *)
(***************************************************************************)
PathIDs == [ascii : 0..MaxIdAscii, wide : 0..MaxIdWide]
Characters(id) == id.ascii + id.wide
\* len(id): the number of bytes
len(id) == id.ascii + 2 * id.wide

StatusOK == 200
StatusBadRequest == 400
StatusInternalServerError == 500

\* a variant of validateObjectID that lets 33 bytes pass
validateObjectIDThrough33(id) == len(id) > 0 /\ len(id) <= 33

validateObjectID(id) == len(id) > 0 /\ len(id) < 33

HttpInit ==
    /\ seed \in MainSeeds
    /\ \E m \in {"PUT", "GET"} : \E id \in PathIDs : \E readable \in BOOLEAN :
          /\ m = "GET" => readable
          /\ http = [pc |-> "received", method |-> m, id |-> id, readable |-> readable,
                     status |-> 0, storage |-> <<>>]
    /\ disc = NoDiscovery /\ srv = NoServer
    /\ rdir = {} /\ rkey = "" /\ located = <<>> /\ rbefore = NoRemoval
    /\ running = {} /\ dirChanges = 0
    /\ bucket = [i \in Workers |-> FALSE]
    /\ objects = [i \in Workers |-> [k \in ObjectIDs |-> NoObject]]
    /\ req = [r \in Slots |-> IdleReq]
    /\ stable = [k \in ObjectIDs |-> NoObject]

\* router.go, lines 30-53
putObject ==
    /\ http.pc = "received" /\ http.method = "PUT"
    /\ \E storageErr \in BOOLEAN :
          http' = IF ~validateObjectID(http.id)
                  THEN [http EXCEPT !.pc = "answered", !.status = StatusBadRequest]
                  ELSE IF ~http.readable
                  THEN [http EXCEPT !.pc = "answered", !.status = StatusBadRequest]
                  ELSE [http EXCEPT !.pc = "answered",
                                    !.storage = Append(@, [op |-> "Put", id |-> http.id]),
                                    !.status = IF storageErr THEN StatusInternalServerError
                                               ELSE StatusOK]
    /\ UNCHANGED <<mainVars, ringVars, discVars, srv>>

\* router.go, lines 55-72
getObject ==
    /\ http.pc = "received" /\ http.method = "GET"
    /\ \E storageErr \in BOOLEAN :
          http' = IF ~validateObjectID(http.id)
                  THEN [http EXCEPT !.pc = "answered", !.status = StatusBadRequest]
                  ELSE [http EXCEPT !.pc = "answered",
                                    !.storage = Append(@, [op |-> "Get", id |-> http.id]),
                                    !.status = IF storageErr THEN StatusInternalServerError
                                               ELSE StatusOK]
    /\ UNCHANGED <<mainVars, ringVars, discVars, srv>>

HttpNext == putObject \/ getObject

HttpSpec == HttpInit /\ [][HttpNext]_vars

(***************************************************************************)
(* ShutdownSpec: the gateway process (cmd/gateway/main.go) from serving    *)
(* to its exit.  A context is [cancelled, deadline]: done when it was      *)
(* cancelled, or when the clock (seconds since the signal) has reached its *)
(* deadline; deadline -1 is none.  http.Server.Shutdown closes the         *)
(* listeners and returns nil as soon as no request is in flight, and the   *)
(* context's error as soon as the context is done while one still is.      *)
(***************************************************************************)
Signals == {"SIGHUP", "SIGINT", "SIGTERM", "SIGQUIT"}
GraceSeconds == 3
ErrContextDeadlineExceeded == <<[msg |-> "context deadline exceeded", arg |-> ""]>>

NoContext == [made |-> FALSE, cancelled |-> FALSE, deadline |-> -1]
\* context.WithCancel(context.Background()), line 24
Background == [made |-> TRUE, cancelled |-> FALSE, deadline |-> -1]
\* context.WithTimeout(parent, d) at time now: a child of a cancelled parent
\* is cancelled from the start
WithTimeout(parent, d, now) ==
    [made |-> TRUE, cancelled |-> parent.cancelled,
     deadline |-> IF parent.deadline >= 0 /\ parent.deadline < now + d
                  THEN parent.deadline ELSE now + d]
Done(c, now) == c.cancelled \/ (c.deadline >= 0 /\ now >= c.deadline)
Err(c, now) ==
    IF c.cancelled THEN ErrContextCanceled
    ELSE IF c.deadline >= 0 /\ now >= c.deadline THEN ErrContextDeadlineExceeded
    ELSE NoError

ShutdownInit ==
    /\ seed \in MainSeeds
    /\ srv = [pc |-> "serving", ctx |-> Background, closeCtx |-> NoContext,
              inflight |-> 0, sig |-> "", clock |-> 0,
              calledAt |-> -1, liveAtCall |-> FALSE, inflightAtSignal |-> 0,
              err |-> NoError, exit |-> -1]
    /\ http = NoRequest /\ disc = NoDiscovery
    /\ rdir = {} /\ rkey = "" /\ located = <<>> /\ rbefore = NoRemoval
    /\ running = {} /\ dirChanges = 0
    /\ bucket = [i \in Workers |-> FALSE]
    /\ objects = [i \in Workers |-> [k \in ObjectIDs |-> NoObject]]
    /\ req = [r \in Slots |-> IdleReq]
    /\ stable = [k \in ObjectIDs |-> NoObject]

\* a request arrives while the listener is open
Accept ==
    /\ srv.pc \in {"serving", "signalled", "cancelled"}
    /\ srv.inflight < MaxInflight
    /\ srv' = [srv EXCEPT !.inflight = @ + 1,
                          !.inflightAtSignal = IF srv.pc = "serving" THEN @ + 1 ELSE @]
    /\ UNCHANGED <<mainVars, ringVars, discVars, http>>

\* a request in flight is answered
Complete ==
    /\ srv.pc \in {"serving", "signalled", "cancelled", "shutdown"}
    /\ srv.inflight > 0
    /\ srv' = [srv EXCEPT !.inflight = @ - 1,
                          !.inflightAtSignal = IF srv.pc = "serving" THEN @ - 1 ELSE @]
    /\ UNCHANGED <<mainVars, ringVars, discVars, http>>

\* a second passes after the signal
Tick ==
    /\ srv.pc \in {"signalled", "cancelled", "shutdown"}
    /\ srv.clock < MaxClock
    /\ srv' = [srv EXCEPT !.clock = @ + 1]
    /\ UNCHANGED <<mainVars, ringVars, discVars, http>>

\* line 52: sig := <-sigc
Signal(sig) ==
    /\ srv.pc = "serving"
    /\ srv' = [srv EXCEPT !.pc = "signalled", !.sig = sig]
    /\ UNCHANGED <<mainVars, ringVars, discVars, http>>

\* line 53: cancel()
cancel ==
    /\ srv.pc = "signalled"
    /\ srv' = [srv EXCEPT !.pc = "cancelled", !.ctx.cancelled = TRUE]
    /\ UNCHANGED <<mainVars, ringVars, discVars, http>>

\* lines 56-58: closeCtx is derived from ctx and Shutdown is called with it
Shutdown ==
    /\ srv.pc = "cancelled"
    /\ LET closeCtx == WithTimeout(srv.ctx, GraceSeconds, srv.clock)
       IN  srv' = [srv EXCEPT !.pc = "shutdown", !.closeCtx = closeCtx,
                              !.calledAt = srv.clock,
                              !.liveAtCall = ~Done(closeCtx, srv.clock)]
    /\ UNCHANGED <<mainVars, ringVars, discVars, http>>

\* lines 58-62: Shutdown returns, the process exits
ShutdownReturns ==
    /\ srv.pc = "shutdown"
    /\ \/ /\ srv.inflight = 0
          /\ srv' = [srv EXCEPT !.pc = "exited", !.exit = 0]
       \/ /\ srv.inflight > 0 /\ Done(srv.closeCtx, srv.clock)
          /\ srv' = [srv EXCEPT !.pc = "exited", !.exit = 1,
                                !.err = Err(srv.closeCtx, srv.clock)]
    /\ UNCHANGED <<mainVars, ringVars, discVars, http>>

ShutdownNext ==
    \/ Accept
    \/ Complete
    \/ Tick
    \/ \E sig \in Signals : Signal(sig)
    \/ cancel
    \/ Shutdown
    \/ ShutdownReturns

ShutdownSpec == ShutdownInit /\ [][ShutdownNext]_vars

(***************************************************************************)
(* Properties.                                                             *)
(***************************************************************************)
Routed(q) == q.op \in {"Put", "Get"} /\ q.resolved
LastCall(q) == q.calls[Len(q.calls)]
Delegated(q) ==
    /\ Routed(q) /\ Finished(q) /\ q.calls # <<>>
    /\ LastCall(q).call \in {"PutObject", "GetObject"}
EndpointsOf(q) == {q.storageNodes[k].Endpoint : k \in DOMAIN q.storageNodes}

\* C1: when discovery succeeds with zero nodes, a balanced Put or Get ends
\* in a returned error: it does not panic, selects no node, builds no
\* client and contacts no backend.
C1_EmptyDirectoryReturnsError ==
    \A r \in Slots :
        (Routed(req[r]) /\ DOMAIN req[r].storageNodes = {} /\ Finished(req[r]))
            => /\ req[r].pc = "failed" /\ req[r].panic = ""
               /\ req[r].err # NoError
               /\ req[r].storageID = "" /\ req[r].s = NoClient
               /\ req[r].calls = <<>>

\* C2: a Get that follows a successful Put(id, t, b), with the directory
\* unchanged and no other Put to id in between, and whose calls are all
\* answered, returns exactly (b, t, nil).
C2_RoundTrip ==
    \A r \in Slots :
        (req[r].op = "Get" /\ Finished(req[r]) /\ req[r].want.present /\ ~req[r].fault)
            => /\ req[r].pc = "done" /\ req[r].err = NoError
               /\ req[r].rbody = req[r].want.body
               /\ req[r].rct = req[r].want.ct

\* C3: no Put or Get returns an error only because another request created
\* the bucket of its node between its existence check and its create.
C3_ConcurrentEnsureNeverFails ==
    \A r \in Slots :
        (Routed(req[r]) /\ Finished(req[r]))
            => ~Wraps(req[r].err, ErrBucketAlreadyOwnedByYou)

\* C4: for a non-empty directory, routing a key ends without a panic in the
\* key of a member of that directory, whose descriptor is not the zero value.
C4_RoutesToMember ==
    \A o \in DOMAIN located :
        rdir # {} =>
            /\ located[o].panic = ""
            /\ located[o].storageID \in DOMAIN Directory(rdir)
            /\ Directory(rdir)[located[o].storageID] # ZeroNode
C4_Witness ==
    \E o \in DOMAIN located :
        /\ Cardinality(rdir) = MaxWorkers
        /\ located[o].storageID = WorkerKey(2)

\* C5: for a fixed directory and a fixed key, every ring build followed by
\* locate selects the same node, in whatever order the directory's nodes are
\* iterated and added to the ring.
C5_RoutingIgnoresOrder ==
    \A o1 \in DOMAIN located : \A o2 \in DOMAIN located :
        /\ located[o1].panic = located[o2].panic
        /\ located[o1].storageID = located[o2].storageID
C5_Witness ==
    \E o1 \in DOMAIN located : \E o2 \in DOMAIN located :
        /\ Cardinality(rdir) = MaxWorkers
        /\ o1[1] # o2[1]
        /\ located[o1].panic = "" /\ located[o2].panic = ""
        /\ located[o1].storageID = located[o2].storageID
        /\ o1[1] # located[o1].storageID /\ o2[1] # located[o1].storageID

\* C6: when a balanced Put or Get has selected a node and building the
\* client for it or ensuring its bucket fails, the returned error carries
\* the identifier of the selected node.
C6_SelectFailureNamesNode ==
    \A r \in Slots :
        (/\ Routed(req[r]) /\ req[r].pc = "failed" /\ req[r].storageID # ""
         /\ ~Delegated(req[r]))
            => Mentions(req[r].err, req[r].storageID)

\* C7: once the bucket of the selected node is ensured, a balanced Put or
\* Get returns what the node's client returned on success, and on failure
\* an error that wraps the client's error and carries the node's identifier.
C7_DelegateResult ==
    \A r \in Slots :
        Delegated(req[r]) =>
            LET q == req[r]
                c == LastCall(q)
            IN  /\ c.ok => /\ q.pc = "done" /\ q.err = NoError
                           /\ q.rbody = c.body /\ q.rct = c.ct
                /\ ~c.ok => /\ q.pc = "failed"
                            /\ Wraps(q.err, c.err)
                            /\ Mentions(q.err, q.storageID)
C7_Witness ==
    /\ \E r \in Slots : Delegated(req[r]) /\ req[r].op = "Get" /\ ~LastCall(req[r]).ok
    /\ \E r \in Slots : Delegated(req[r]) /\ req[r].op = "Put" /\ LastCall(req[r]).ok

\* C8: a balanced Put or Get contacts only the node the ring selected for
\* its key; a failed call is its last call and ends it in failure; and two
\* requests for the same key under the same directory select the same node,
\* the second failing at the client of that node when the first did.
C8_OneNodeNoRetry ==
    /\ \A r \in Slots :
          Routed(req[r]) =>
            LET q == req[r]
            IN  /\ \A j \in 1..Len(q.calls) :
                      /\ q.storageID \in DOMAIN q.storageNodes
                      /\ q.calls[j].node = q.storageNodes[q.storageID].Endpoint
                      /\ ~q.calls[j].ok => (j = Len(q.calls) /\ q.pc = "failed")
                /\ Len(q.calls) <= 3
    /\ \A r1 \in Slots : \A r2 \in Slots :
          (/\ Routed(req[r1]) /\ Routed(req[r2])
           /\ req[r1].id = req[r2].id
           /\ req[r1].storageNodes = req[r2].storageNodes
           /\ req[r1].panic = "" /\ req[r2].panic = "")
            => /\ req[r1].storageID = req[r2].storageID
               /\ (req[r1].pc = "failed" /\ req[r1].calls = <<>>)
                     => (req[r2].pc = "failed" /\ req[r2].calls = <<>>)
C8_Witness ==
    \E r1 \in Slots : \E r2 \in Slots :
        /\ r1 # r2
        /\ Routed(req[r1]) /\ Routed(req[r2])
        /\ req[r1].id = req[r2].id
        /\ Cardinality(DOMAIN req[r1].storageNodes) = MaxWorkers
        /\ req[r1].storageNodes = req[r2].storageNodes
        /\ req[r1].pc = "failed" /\ req[r2].pc = "failed"
        /\ req[r1].calls # <<>> /\ ~LastCall(req[r1]).ok
        /\ Cardinality(EndpointsOf(req[r1])) = MaxWorkers

\* C9: the bulk Setup stops at the first node whose client cannot be built
\* or whose bucket cannot be ensured: it returns an error that carries that
\* node's identifier and sends no call to a node it has not visited.
C9_SetupStopsAtFirstFailure ==
    \A r \in Slots :
        (req[r].op = "Setup" /\ req[r].resolved) =>
            LET q == req[r]
                visited == DOMAIN q.storageNodes \ q.remaining
            IN  /\ \A j \in 1..Len(q.calls) :
                      /\ ~q.calls[j].ok => (j = Len(q.calls) /\ q.pc = "failed")
                      /\ \A k \in q.remaining :
                            q.calls[j].node # q.storageNodes[k].Endpoint
                /\ \A k \in visited :
                      newMinioStorage(minioConfig(q.storageNodes[k])).err # NoError
                          => (q.pc = "failed" /\ q.storageID = k)
                /\ q.pc = "failed" =>
                      /\ q.storageID \in visited
                      /\ Mentions(q.err, String(q.storageNodes[q.storageID]))
C9_Witness ==
    \E r \in Slots :
        /\ req[r].op = "Setup" /\ req[r].resolved /\ req[r].pc = "failed"
        /\ req[r].remaining # {}
        /\ Len(req[r].calls) >= 2 /\ ~LastCall(req[r]).ok

\* C10: when the bulk Setup returns without error, every node of the
\* directory it read at its start has answered its existence check and has
\* its bucket, also the nodes whose bucket existed before.
C10_SetupEnsuresAll ==
    \A r \in Slots :
        (req[r].op = "Setup" /\ req[r].resolved /\ req[r].pc = "done") =>
            \A k \in DOMAIN req[r].storageNodes :
                LET e == req[r].storageNodes[k].Endpoint
                IN  /\ \E j \in 1..Len(req[r].calls) :
                          /\ req[r].calls[j].node = e
                          /\ req[r].calls[j].call = "BucketExists"
                          /\ req[r].calls[j].ok
                    /\ BackendOf(e) \in Workers
                    /\ bucket[BackendOf(e)]
C10_Witness ==
    \E r \in Slots :
        /\ req[r].op = "Setup" /\ req[r].resolved /\ req[r].pc = "done"
        /\ Cardinality(DOMAIN req[r].storageNodes) = 2
        /\ Len(req[r].calls) = 3

\* the containers listed, and among them those a directory is to hold
Listed == {disc.containers[j] : j \in 1..Len(disc.containers)}
FirstName(c) == IF Len(c.Names) > 0 THEN c.Names[1] ELSE <<>>
KeyOf(c) == c.ID \o "." \o Join(FirstName(c))
Tagged(c) == \E j \in 1..Len(FirstName(c)) : FirstName(c)[j] = workerContainerNamePattern
Eligible(c) ==
    /\ ~c.NetworkSettings.nil /\ c.NetworkSettings.attached
    /\ Len(c.Names) > 0 /\ Tagged(c)
Discovered == disc.pc \in {"discovered", "resolved"}

\* C11: when the listing fails, or the inspection of a listed container
\* fails, discovery returns an error and the Put, Get or Setup that asked
\* fails with it: it holds no directory, has selected no node, built no
\* client and sent no call.
C11_DiscoveryFailsFast ==
    (/\ disc.pc = "resolved" /\ disc.res.panic = ""
     /\ \/ disc.fault.listErr
        \/ \E c \in Listed : ~c.NetworkSettings.nil /\ c.ID \in disc.fault.inspectFail)
        => /\ disc.res.err # NoError
           /\ disc.rq.pc = "failed" /\ disc.rq.err = disc.res.err
           /\ ~disc.rq.resolved /\ disc.rq.storageNodes = <<>>
           /\ disc.rq.storageID = "" /\ disc.rq.s = NoClient
           /\ disc.rq.calls = <<>>
C11_Witness ==
    /\ disc.pc = "resolved" /\ disc.rq.op = "Put"
    /\ Len(disc.containers) = MaxListing
    /\ disc.containers[MaxListing].ID \in disc.fault.inspectFail
    /\ disc.res.err # NoError
    /\ DOMAIN disc.res.nodes # {}

\* C12: a listed container without network settings, or not attached to
\* the configured network, is skipped: with the listing and every
\* inspection succeeding, discovery returns without error or panic the
\* directory of the eligible containers.
C12_UnreachableCandidateSkipped ==
    (Discovered /\ ~disc.fault.listErr /\ disc.fault.inspectFail = {})
        => /\ disc.res.panic = "" /\ disc.res.err = NoError
           /\ DOMAIN disc.res.nodes = {KeyOf(c) : c \in {x \in Listed : Eligible(x)}}

\* C13: a directory that discovery returns holds exactly the listed
\* containers that have network settings and whose first name contains the
\* worker pattern, each under the key "<id>.<name>" with its own id and
\* name; a container without names or with another first name is not in it.
C13_DirectoryMembership ==
    (Discovered /\ disc.res.panic = "" /\ disc.res.err = NoError)
        => /\ \A k \in DOMAIN disc.res.nodes :
                \E c \in Listed :
                    /\ Eligible(c) /\ k = KeyOf(c)
                    /\ disc.res.nodes[k].ID = c.ID
                    /\ disc.res.nodes[k].Name = c.Names[1]
           /\ \A c \in Listed :
                /\ Eligible(c) => KeyOf(c) \in DOMAIN disc.res.nodes
                /\ (Len(c.Names) = 0 \/ ~Tagged(c))
                      => \A k \in DOMAIN disc.res.nodes : disc.res.nodes[k].ID # c.ID
C13_Witness ==
    /\ Discovered /\ disc.res.panic = "" /\ disc.res.err = NoError
    /\ Cardinality(DOMAIN disc.res.nodes) = 1
    /\ \E c \in Listed : c = SecondNameContainer

\* C14: the credentials of a node are the whole text after the first "=" of
\* the environment entries MINIO_ACCESS_KEY and MINIO_SECRET_KEY, also when
\* that text contains "=".
C14_EnvSplitOnFirstEquals ==
    (Discovered /\ disc.res.panic = "" /\ disc.res.err = NoError)
        => \A c \in Listed : \A j \in 1..Len(c.Env) :
              (Eligible(c) /\ Len(c.Env[j]) > 1 /\ c.Env[j][1] = secretKeyEnv
                  /\ c.Env[j][2] = "=")
                => disc.res.nodes[KeyOf(c)].SecretKey
                       = Join(SubSeq(c.Env[j], 3, Len(c.Env[j])))

\* C15: minioStorage.Setup on a node whose bucket exists, the check
\* succeeding, sends no create, returns no error and finds the bucket still
\* there; a failed check and a failed create end the request with an error
\* that wraps the failure.
C15_EnsureIdempotent ==
    \A r \in Slots :
        LET q == req[r]
        IN  \A j \in 1..Len(q.calls) :
                LET c == q.calls[j]
                IN  /\ (c.call = "BucketExists" /\ c.ok /\ c.body = "TRUE")
                          => /\ bucket[BackendOf(c.node)]
                             /\ j < Len(q.calls) => q.calls[j + 1].call # "MakeBucket"
                             /\ (j = Len(q.calls) /\ q.pc = "failed")
                                   => q.storageNodes[q.storageID].Endpoint # c.node
                    /\ (c.call \in {"BucketExists", "MakeBucket"} /\ ~c.ok)
                          => /\ j = Len(q.calls) /\ q.pc = "failed"
                             /\ Wraps(q.err, c.err)
C15_Witness ==
    \E r1 \in Slots : \E r2 \in Slots :
        /\ req[r1].op = "Put" /\ req[r1].pc = "done" /\ Len(req[r1].calls) = 3
        /\ req[r2].op = "Put" /\ req[r2].pc = "done" /\ Len(req[r2].calls) = 2
        /\ req[r2].calls[1].node = req[r1].calls[1].node
        /\ req[r2].calls[1].body = "TRUE"

\* the stages of one Put or Get follow each other in the order of the code:
\* no node without a directory, no client without a node, no call without a
\* client, first the existence check, a create only after a check that found
\* no bucket, the put/get last and only after the bucket of the same node
\* was ensured, and nothing after a failed call
StagesInOrder(q) ==
    /\ ~q.resolved => q.storageID = ""
    /\ q.storageID = "" => q.s = NoClient
    /\ q.s = NoClient => q.calls = <<>>
    /\ \A j \in 1..Len(q.calls) :
          LET c == q.calls[j]
          IN  /\ c.node = q.s.Endpoint
              /\ j = 1 => c.call = "BucketExists"
              /\ c.call = "BucketExists" => j = 1
              /\ c.call = "MakeBucket"
                    => /\ j = 2 /\ q.calls[1].ok /\ q.calls[1].body = "FALSE"
              /\ c.call \in {"PutObject", "GetObject"}
                    => /\ j = Len(q.calls) /\ j > 1
                       /\ q.calls[j - 1].ok
                       /\ q.calls[j - 1].call = "BucketExists" => q.calls[j - 1].body = "TRUE"
              /\ ~c.ok => (j = Len(q.calls) /\ q.pc = "failed")

\* C16: the stages of a balanced Put or Get occur in the order discovery,
\* locate, connect, ensure, delegate, the put/get following a successful
\* ensure on the same node, and a request that does not succeed ends in
\* Failed, with an error returned.
C16_StageOrder ==
    \A r \in Slots :
        req[r].op \in {"Put", "Get"} =>
            /\ StagesInOrder(req[r])
            /\ Finished(req[r]) =>
                  \/ req[r].pc = "done" /\ req[r].err = NoError
                  \/ req[r].pc = "failed" /\ req[r].err # NoError

C18_RemovalReroutes ==
    (rbefore.removed # "" /\ Cardinality(rbefore.dir) = 2) =>
        /\ \A o1 \in DOMAIN rbefore.located : \A o2 \in DOMAIN rbefore.located :
              /\ rbefore.located[o1].panic = ""
              /\ rbefore.located[o1].storageID = rbefore.located[o2].storageID
              /\ rbefore.located[o1].storageID \in {WorkerKey(w) : w \in rbefore.dir}
        /\ \A o \in DOMAIN located :
              /\ located[o].panic = ""
              /\ located[o].storageID # rbefore.removed
              /\ located[o].storageID \in {WorkerKey(w) : w \in rdir}
C18_Witness ==
    /\ rbefore.removed # "" /\ Cardinality(rbefore.dir) = 2
    /\ Cardinality(DOMAIN rbefore.located) = 2
    /\ \E o \in DOMAIN rbefore.located : rbefore.located[o].storageID = rbefore.removed
    /\ \E o \in DOMAIN located : located[o].storageID \in {WorkerKey(w) : w \in rdir}

\* C19: once the context of a balanced Put or Get is cancelled, every call
\* it sends afterwards is aborted with the cancellation: no existence
\* check, create, put or get is answered by a backend after that.
C19_CancellationAbortsCalls ==
    \A r \in Slots :
        (req[r].op \in {"Put", "Get"} /\ req[r].cancelAt >= 0) =>
            \A j \in (req[r].cancelAt + 1)..Len(req[r].calls) :
                /\ ~req[r].calls[j].ok
                /\ \/ req[r].calls[j].err = ErrContextCanceled
                   \/ Wraps(req[r].calls[j].err, ErrContextCanceled)

\* C20: a step changes a stored object only as the delegated call of a Put
\* that succeeds, and then only the object under the key of that Put on the
\* node selected for it; a Get, a Setup and a Put that fails change no
\* object; a bucket appears only on the node a request is ensuring.
C20_Frame ==
    [][/\ \A i \in Workers : \A k \in ObjectIDs :
            objects'[i][k] # objects[i][k] =>
                \E r \in Slots :
                    /\ req[r].op = "Put" /\ req[r].pc = "delegate"
                    /\ req'[r].pc = "done" /\ req'[r].err = NoError
                    /\ req[r].id = k
                    /\ req[r].storageNodes[req[r].storageID].Endpoint = EndpointOf(i)
                    /\ \A i2 \in Workers : \A k2 \in ObjectIDs :
                          (i2 # i \/ k2 # k) => objects'[i2][k2] = objects[i2][k2]
       /\ \A i \in Workers :
            bucket'[i] # bucket[i] =>
                \E r \in Slots :
                    /\ req[r].pc = "make"
                    /\ req[r].storageNodes[req[r].storageID].Endpoint = EndpointOf(i)
      ]_vars
C20_Witness ==
    /\ \E r \in Slots : req[r].op = "Put" /\ req[r].pc = "done"
    /\ \E r \in Slots : req[r].op = "Get" /\ req[r].pc = "done"
    /\ Cardinality({ik \in Workers \X ObjectIDs : objects[ik[1]][ik[2]].present}) = 1
    /\ Cardinality(running) = MaxWorkers

\* C21: after a termination signal Shutdown is called with a context that
\* is live at the call and expires GraceSeconds later, so the shutdown is
\* reported as failed only with a request still in flight once the grace
\* period has passed.
C21_ShutdownContextLive ==
    srv.pc \in {"shutdown", "exited"} =>
        /\ srv.liveAtCall
        /\ ~srv.closeCtx.cancelled
        /\ srv.closeCtx.deadline = srv.calledAt + GraceSeconds
        /\ srv.exit = 1 => (srv.inflight > 0 /\ srv.clock >= srv.calledAt + GraceSeconds)

====
